---- MODULE Spec2Model ----
(***************************************************************************)
(* NuclideTextBuffer: an editable document bound to a file on a remote     *)
(* store.  The model follows                                               *)
(*   src/pkg/nuclide-remote-connection/lib/NuclideTextBuffer.js            *)
(* One action per handler; an `await` splits a handler into the step that  *)
(* runs up to the await and the step that runs when the promise settles.   *)
(* The remote store (its contents, the moment a write lands, the outcome   *)
(* of a read or a write, the notifications it sends) is the environment.   *)
(***************************************************************************)
EXTENDS Integers, Sequences, FiniteSets, TLC

(* ------------------------------ bounds -------------------------------- *)
MaxText == 2          \* number of distinct non-empty texts
MaxOps == 2           \* saves, edits and remote writes started per behaviour
MaxDepth == 2         \* depth of the directory tree under the root
MaxLookups == 3       \* calls of getConfigDir per behaviour
LineSlack == 2        \* how far around the limit the line counts range

\* NuclideTextBuffer.js: const DIFF_LINE_LIMIT = 10000
DIFF_LINE_LIMIT == 10000

(* ------------------------------ values -------------------------------- *)
TextPool == <<"", "a", "b", "c", "d">>
Contents == {TextPool[i] : i \in 1..(MaxText + 1)}
Null == "<null>"                      \* JavaScript null / absent
Paths == {"nuclide://host/f", "nuclide://host/g"}
EmptyPath == ""

VARIABLES
    text,                    \* getText()
    cachedDiskContents,      \* this.cachedDiskContents
    conflict,                \* this.conflict
    exists,                  \* this._exists
    saveID,                  \* this._saveID
    pendingSaveContents,     \* this._pendingSaveContents
    wasModifiedBeforeRemove, \* this.wasModifiedBeforeRemove
    destroyed,               \* this.destroyed
    loaded,                  \* this.loaded
    path,                    \* getPath()
    subscribed,              \* this.fileSubscriptions holds live subscriptions
    disk,                    \* contents of the remote file, Null when absent
    changeEvents,            \* change notifications sent and not yet handled
    deleteEvents,            \* delete notifications sent and not yet handled
    saves,                   \* saveAs calls suspended in file.write
    reads,                   \* handlers suspended in updateCachedDiskContents
    nOps,                    \* how much of MaxOps is used
    last,                    \* the step just taken, with the events it emitted
    \* ConfigCache
    markers,                 \* the directories that hold the marker file
    resolved,                \* the cache: directory -> answer, once resolved
    walks,                   \* lookups in flight, each shared by its callers
    promised,                \* what completed lookups answered, per directory
    nLookups,                \* how much of MaxLookups is used
    \* setTextViaDiff
    bufferText               \* the buffer's text, as a body and its newline count

docVars == <<text, cachedDiskContents, conflict, exists, saveID,
             pendingSaveContents, wasModifiedBeforeRemove, destroyed, loaded,
             path, subscribed>>
envVars == <<disk, changeEvents, deleteEvents>>
procVars == <<saves, reads>>
countVars == <<nOps>>
cacheVars == <<markers, resolved, walks, promised, nLookups>>
diffVars == <<bufferText>>
auxVars == <<cacheVars, diffVars>>
bufferVars == <<docVars, envVars, procVars, countVars>>
vars == <<docVars, envVars, procVars, countVars, last, auxVars>>

Remove(s, i) == [j \in 1..(Len(s) - 1) |-> IF j < i THEN s[j] ELSE s[j + 1]]

Step(op, ev, arg) == [op |-> op, ev |-> ev, arg |-> arg]
NoArg == [kind |-> "none"]

(* The document is opened against an existing remote file, empty or not,
   and loaded; the user may already have edited it.  Non-empty texts are
   interchangeable, and so are the paths. *)
OpenedPath == "nuclide://host/f"
OpenedContents == {TextPool[1], TextPool[2]}

(* ------------- values of the ConfigCache and of setTextViaDiff ---------- *)

\* A path is the sequence of its components; the root directory is <<>>.
\* One directory per level, MaxDepth levels deep, and a file in each.
DirNames == {"a"}
Dirs == UNION {[1..n -> DirNames] : n \in 0..MaxDepth}
FileName == "file"
StartPaths == Dirs \cup {Append(d, FileName) : d \in Dirs}
NoConfig == <<Null>>                  \* the answer "no marker found"
EmptyMap == [d \in {} |-> NoConfig]

\* A text, as far as setTextViaDiff looks at it.
NewlineCounts ==
    (0..LineSlack) \cup ((DIFF_LINE_LIMIT - LineSlack)..(DIFF_LINE_LIMIT + LineSlack))
Texts == [body : {"x", "y"}, newlines : NewlineCounts]

\* The state of each part while another part's specification runs.
CacheIdle ==
    /\ markers = {}
    /\ resolved = EmptyMap
    /\ walks = <<>>
    /\ promised = EmptyMap
    /\ nLookups = 0

DiffIdle == bufferText = [body |-> "x", newlines |-> 0]

BufferIdle ==
    /\ disk = TextPool[1]
    /\ text = TextPool[1]
    /\ cachedDiskContents = TextPool[1]
    /\ conflict = FALSE
    /\ exists = TRUE
    /\ saveID = 0
    /\ pendingSaveContents = Null
    /\ wasModifiedBeforeRemove = FALSE
    /\ destroyed = FALSE
    /\ loaded = TRUE
    /\ path = OpenedPath
    /\ subscribed = TRUE
    /\ changeEvents = 0
    /\ deleteEvents = 0
    /\ saves = <<>>
    /\ reads = <<>>
    /\ nOps = 0

Init ==
    /\ CacheIdle
    /\ DiffIdle
    /\ disk \in OpenedContents
    /\ text \in OpenedContents
    /\ cachedDiskContents = disk
    /\ conflict = FALSE
    /\ exists = TRUE
    /\ saveID = 0
    /\ pendingSaveContents = Null
    /\ wasModifiedBeforeRemove = FALSE
    /\ destroyed = FALSE
    /\ loaded = TRUE
    /\ path = OpenedPath
    /\ subscribed = TRUE
    /\ changeEvents = 0
    /\ deleteEvents = 0
    /\ saves = <<>>
    /\ reads = <<>>
    /\ nOps = 0
    /\ last = Step("constructor", {}, NoArg)

isEmpty == text = ""

(* _isModified(), lines 275-288; this.file is never null once constructed
   with a path. *)
isModified ==
    IF ~loaded THEN FALSE
    ELSE IF exists THEN text # cachedDiskContents
    ELSE IF wasModifiedBeforeRemove THEN ~isEmpty ELSE FALSE

ModifiedEvent(b) == IF b THEN "did-change-modified(true)" ELSE "did-change-modified(false)"

(* A change of the remote file reaches the document only through a live
   subscription. *)
Notify == IF subscribed THEN changeEvents + 1 ELSE changeEvents

(* ------------------------------ saveAs -------------------------------- *)
(* SaveAs with the empty-path check made after the snapshot is taken. *)
SaveAs_checksLate(filePath) ==
    IF filePath = EmptyPath
    THEN /\ pendingSaveContents' = text
         /\ path' = filePath
         /\ last' = Step("saveAs:throw", {"will-save", "throw"}, NoArg)
         /\ UNCHANGED <<text, cachedDiskContents, conflict, exists, saveID,
                        wasModifiedBeforeRemove, destroyed, loaded, subscribed,
                        envVars, procVars, countVars, auxVars>>
    ELSE /\ nOps < MaxOps
         /\ nOps' = nOps + 1
         /\ path' = filePath
         /\ pendingSaveContents' = text
         /\ saves' = Append(saves, [kind |-> "save", toSaveContents |-> text,
                                    filePath |-> filePath, landed |-> FALSE])
         /\ last' = Step("saveAs:begin",
                         {"will-save"} \cup
                             (IF filePath # path THEN {"did-change-path"} ELSE {}),
                         NoArg)
         /\ IF filePath # path THEN disk' \in Contents \cup {Null}
                               ELSE disk' = disk
         /\ UNCHANGED <<text, cachedDiskContents, conflict, exists, saveID,
                        wasModifiedBeforeRemove, destroyed, loaded, subscribed,
                        changeEvents, deleteEvents, reads, auxVars>>

(* Lines 95-112: up to the await of file.write.  An empty path throws
   before anything else. *)
SaveAs(filePath) ==
    IF filePath = EmptyPath
    THEN /\ last' = Step("saveAs:throw", {"throw"}, NoArg)
         /\ UNCHANGED <<docVars, envVars, procVars, countVars, auxVars>>
    ELSE /\ nOps < MaxOps
         /\ nOps' = nOps + 1
         /\ path' = filePath
         /\ pendingSaveContents' = text
         /\ saves' = Append(saves, [kind |-> "save", toSaveContents |-> text,
                                    filePath |-> filePath, landed |-> FALSE])
         /\ last' = Step("saveAs:begin",
                         {"will-save"} \cup
                             (IF filePath # path THEN {"did-change-path"} ELSE {}),
                         NoArg)
         \* setPath rebinds the handle: the file at the new path holds anything
         /\ IF filePath # path THEN disk' \in Contents \cup {Null}
                               ELSE disk' = disk
         /\ UNCHANGED <<text, cachedDiskContents, conflict, exists, saveID,
                        wasModifiedBeforeRemove, destroyed, loaded, subscribed,
                        changeEvents, deleteEvents, reads, auxVars>>

(* file.write reaches the remote store: the file takes the written contents
   and the store's watcher reports a change.  A write issued before the
   handle was rebound lands on the file of its own path. *)
WriteLands(i) ==
    /\ ~saves[i].landed
    /\ saves' = [saves EXCEPT ![i].landed = TRUE]
    /\ IF saves[i].filePath = path
       THEN disk' = saves[i].toSaveContents /\ changeEvents' = Notify
       ELSE UNCHANGED <<disk, changeEvents>>
    /\ last' = Step("write:lands", {}, saves[i])
    /\ UNCHANGED <<docVars, deleteEvents, reads, countVars>>
    /\ UNCHANGED auxVars

(* Line 114. *)
NextSaveID == saveID + 1

(* SaveOk caching the text of the moment instead of the snapshot written. *)
SaveOk_cachesCurrentText(i) ==
    /\ saves[i].landed
    /\ cachedDiskContents' = text
    /\ saveID' = NextSaveID
    /\ conflict' = FALSE
    /\ pendingSaveContents' = Null
    /\ saves' = Remove(saves, i)
    /\ last' = Step("saveAs:ok", {ModifiedEvent(FALSE), "did-save"}, saves[i])
    /\ UNCHANGED <<text, exists, wasModifiedBeforeRemove, destroyed, loaded, path,
                   subscribed, envVars, reads, countVars>>
    /\ UNCHANGED auxVars

(* Lines 113-118 and 143: the write promise resolved. *)
SaveOk(i) ==
    /\ saves[i].landed
    /\ cachedDiskContents' = saves[i].toSaveContents
    /\ saveID' = NextSaveID
    /\ conflict' = FALSE
    /\ pendingSaveContents' = Null
    /\ saves' = Remove(saves, i)
    /\ last' = Step("saveAs:ok", {ModifiedEvent(FALSE), "did-save"}, saves[i])
    /\ UNCHANGED <<text, exists, wasModifiedBeforeRemove, destroyed, loaded, path,
                   subscribed, envVars, reads, countVars>>
    /\ UNCHANGED auxVars

(* SaveFail with the save counted although the write failed. *)
SaveFail_countsSave(i) ==
    /\ pendingSaveContents' = Null
    /\ saveID' = saveID + 1
    /\ saves' = Remove(saves, i)
    /\ last' = Step("saveAs:failed",
                    {"addError"} \cup
                        (IF destroyed THEN {"workspace.open"} ELSE {}),
                    saves[i])
    /\ UNCHANGED <<text, cachedDiskContents, conflict, exists,
                   wasModifiedBeforeRemove, destroyed, loaded, path, subscribed,
                   envVars, reads, countVars>>
    /\ UNCHANGED auxVars

(* SaveFail with cachedDiskContents assigned before the write is known to
   have succeeded. *)
SaveFail_updatesCache(i) ==
    /\ pendingSaveContents' = Null
    /\ cachedDiskContents' = saves[i].toSaveContents
    /\ saves' = Remove(saves, i)
    /\ last' = Step("saveAs:failed",
                    {"addError"} \cup
                        (IF destroyed THEN {"workspace.open"} ELSE {}),
                    saves[i])
    /\ UNCHANGED <<text, conflict, exists, saveID,
                   wasModifiedBeforeRemove, destroyed, loaded, path, subscribed,
                   envVars, reads, countVars>>
    /\ UNCHANGED auxVars

(* The recovery opening the text of the moment instead of the snapshot. *)
OpenedUntitled_currentText(save) == IF destroyed THEN text ELSE Null

(* Lines 130-135: the text set in the untitled editor opened when the
   document was destroyed during the save; Null when none is opened. *)
OpenedUntitled(save) == IF destroyed THEN save.toSaveContents ELSE Null

(* Lines 119-143: the write promise rejected (timeout or other failure); the
   write may or may not have reached the store. *)
SaveFail(i) ==
    /\ pendingSaveContents' = Null
    /\ saves' = Remove(saves, i)
    /\ last' = Step("saveAs:failed",
                    {"addError"} \cup
                        (IF destroyed THEN {"workspace.open"} ELSE {}),
                    saves[i] @@ [opened |-> OpenedUntitled(saves[i])])
    /\ UNCHANGED <<text, cachedDiskContents, conflict, exists, saveID,
                   wasModifiedBeforeRemove, destroyed, loaded, path, subscribed, envVars, reads, countVars>>
    /\ UNCHANGED auxVars

(* ------------------------- the remote store --------------------------- *)
ExternalChange(c) ==
    /\ nOps < MaxOps
    /\ c # disk
    /\ disk' = c
    /\ changeEvents' = Notify
    /\ nOps' = nOps + 1
    /\ last' = Step("remote:change", {}, NoArg)
    /\ UNCHANGED <<docVars, deleteEvents, procVars>>
    /\ UNCHANGED auxVars

ExternalDelete ==
    /\ nOps < MaxOps
    /\ disk # Null
    /\ disk' = Null
    /\ deleteEvents' = (IF subscribed THEN deleteEvents + 1 ELSE deleteEvents)
    /\ nOps' = nOps + 1
    /\ last' = Step("remote:delete", {}, NoArg)
    /\ UNCHANGED <<docVars, changeEvents, procVars>>
    /\ UNCHANGED auxVars

(* ---------------------------- local edits ----------------------------- *)
Edit(c) ==
    /\ ~destroyed
    /\ nOps < MaxOps
    /\ c # text
    /\ text' = c
    /\ nOps' = nOps + 1
    /\ last' = Step("edit", {}, NoArg)
    /\ UNCHANGED <<cachedDiskContents, conflict, exists, saveID,
                   pendingSaveContents, wasModifiedBeforeRemove, destroyed,
                   loaded, path, subscribed,
                   envVars, procVars>>
    /\ UNCHANGED auxVars

(* ------------------------- file.onDidChange --------------------------- *)
(* Lines 200-208: up to the await of updateCachedDiskContents. *)
ChangeBegin ==
    /\ subscribed
    /\ changeEvents > 0
    /\ changeEvents' = changeEvents - 1
    /\ conflict' = (IF isModified THEN TRUE ELSE conflict)
    /\ reads' = Append(reads, [kind |-> "change",
                               previousContents |-> cachedDiskContents,
                               previousSaveID |-> saveID])
    /\ last' = Step("onDidChange:begin", {ModifiedEvent(isModified)}, NoArg)
    /\ UNCHANGED <<text, cachedDiskContents, exists, saveID, pendingSaveContents,
                   wasModifiedBeforeRemove, destroyed, loaded, path, subscribed, disk, deleteEvents, saves, countVars>>
    /\ UNCHANGED auxVars

(* The resolution without the save counter. *)
ResolvesWithoutConflict_noSaveID(h, refreshed) ==
    \/ h.previousContents = refreshed
    \/ pendingSaveContents = refreshed

(* The resolution without the pending save's contents. *)
ResolvesWithoutConflict_noPending(h, refreshed) ==
    \/ saveID # h.previousSaveID
    \/ h.previousContents = refreshed

(* The resolution without the comparison with the previous contents. *)
ResolvesWithoutConflict_noPrevious(h, refreshed) ==
    \/ saveID # h.previousSaveID
    \/ pendingSaveContents = refreshed

(* Lines 215-219, evaluated after the read has refreshed cachedDiskContents
   to `refreshed`. *)
ResolvesWithoutConflict(h, refreshed) ==
    \/ saveID # h.previousSaveID
    \/ h.previousContents = refreshed
    \/ pendingSaveContents = refreshed

(* Lines 208-227: the read succeeded (lines 164-169), then the resolution.
   reload() replaces the text with cachedDiskContents. *)
ChangeReadOk(i) ==
    /\ reads[i].kind = "change"
    /\ disk # Null
    /\ cachedDiskContents' = disk
    /\ exists' = TRUE
    /\ reads' = Remove(reads, i)
    /\ IF ResolvesWithoutConflict(reads[i], disk)
       THEN /\ conflict' = FALSE
            /\ text' = text
            /\ last' = Step("onDidChange:clear", {}, reads[i])
       ELSE IF conflict
       THEN /\ conflict' = conflict
            /\ text' = text
            /\ last' = Step("onDidChange:conflict", {"did-conflict"}, reads[i])
       ELSE /\ conflict' = conflict
            /\ text' = disk
            /\ last' = Step("onDidChange:reload",
                            {"will-reload", ModifiedEvent(FALSE), "did-reload"},
                            reads[i])
    /\ UNCHANGED <<saveID, pendingSaveContents, wasModifiedBeforeRemove, destroyed,
                   loaded, path, subscribed, envVars,
                   saves, countVars>>
    /\ UNCHANGED auxVars

(* ChangeReadFail with the failure swallowed as if the file were there. *)
ChangeReadFail_keepsExists(i) ==
    /\ reads[i].kind = "change"
    /\ reads' = Remove(reads, i)
    /\ last' = Step("onDidChange:throw", {}, reads[i])
    /\ UNCHANGED <<text, cachedDiskContents, conflict, exists, saveID,
                   pendingSaveContents, wasModifiedBeforeRemove, destroyed,
                   loaded, path, subscribed, envVars, saves, countVars>>
    /\ UNCHANGED auxVars

(* Lines 170-172 and 208: the read failed; the handler's promise rejects. *)
ChangeReadFail(i) ==
    /\ reads[i].kind = "change"
    /\ exists' = FALSE
    /\ reads' = Remove(reads, i)
    /\ last' = Step("onDidChange:throw", {"throw"}, reads[i])
    /\ UNCHANGED <<text, cachedDiskContents, conflict, saveID, pendingSaveContents,
                   wasModifiedBeforeRemove, destroyed, loaded, path, subscribed, envVars, saves, countVars>>
    /\ UNCHANGED auxVars

(* ------------------------- file.onDidDelete --------------------------- *)
(* The comparison of line 234 inverted. *)
ModifiedAtDelete_inverted == text = cachedDiskContents

(* Line 234. *)
ModifiedAtDelete == text # cachedDiskContents

(* Lines 259-262.  shouldDestroyOnFileDelete is a callback the host may set:
   `policy` is "null" when it is not set, else what it returns. *)
Policies == {"null", "true", "false"}
DestroysOnDelete(policy) == policy = "null" \/ policy = "true"

(* DeleteBegin with a soft delete that keeps cachedDiskContents. *)
DeleteBegin_softKeepsCache(policy) ==
    /\ subscribed
    /\ deleteEvents > 0
    /\ deleteEvents' = deleteEvents - 1
    /\ exists' = FALSE
    /\ wasModifiedBeforeRemove' = ModifiedAtDelete
    /\ IF ModifiedAtDelete
       THEN /\ reads' = Append(reads, [kind |-> "delete",
                                       previousContents |-> cachedDiskContents,
                                       previousSaveID |-> saveID])
            /\ last' = Step("onDidDelete:modified", {}, [policy |-> policy])
            /\ UNCHANGED <<cachedDiskContents, conflict, destroyed, subscribed,
                           changeEvents>>
       ELSE IF DestroysOnDelete(policy)
       THEN /\ destroyed' = TRUE
            /\ subscribed' = FALSE
            /\ changeEvents' = 0
            /\ last' = Step("onDidDelete:destroy", {"did-destroy"},
                            [policy |-> policy])
            /\ UNCHANGED <<cachedDiskContents, conflict, reads>>
       ELSE /\ subscribed' = FALSE
            /\ changeEvents' = 0
            /\ conflict' = FALSE
            /\ last' = Step("onDidDelete:soft", {ModifiedEvent(~isEmpty)},
                            [policy |-> policy])
            /\ UNCHANGED <<cachedDiskContents, destroyed, reads>>
    /\ UNCHANGED <<text, saveID, pendingSaveContents, loaded, path,
                   disk, saves, countVars>>
    /\ UNCHANGED auxVars

(* Lines 232-241 with _maybeDestroy, lines 258-273.  destroy() disposes the
   file subscriptions, so notifications not yet handled are dropped. *)
DeleteBegin(policy) ==
    /\ subscribed
    /\ deleteEvents > 0
    /\ deleteEvents' = deleteEvents - 1
    /\ exists' = FALSE
    /\ wasModifiedBeforeRemove' = ModifiedAtDelete
    /\ IF ModifiedAtDelete
       THEN /\ reads' = Append(reads, [kind |-> "delete",
                                       previousContents |-> cachedDiskContents,
                                       previousSaveID |-> saveID])
            /\ last' = Step("onDidDelete:modified", {}, [policy |-> policy])
            /\ UNCHANGED <<cachedDiskContents, conflict, destroyed, subscribed,
                           changeEvents>>
       ELSE IF DestroysOnDelete(policy)
       THEN /\ destroyed' = TRUE
            /\ subscribed' = FALSE
            /\ changeEvents' = 0
            /\ last' = Step("onDidDelete:destroy", {"did-destroy"},
                            [policy |-> policy])
            /\ UNCHANGED <<cachedDiskContents, conflict, reads>>
       ELSE /\ subscribed' = FALSE
            /\ changeEvents' = 0
            /\ conflict' = FALSE
            /\ cachedDiskContents' = Null
            /\ last' = Step("onDidDelete:soft", {ModifiedEvent(~isEmpty)},
                            [policy |-> policy])
            /\ UNCHANGED <<destroyed, reads>>
    /\ UNCHANGED <<text, saveID, pendingSaveContents, loaded, path,
                   disk, saves, countVars>>
    /\ UNCHANGED auxVars

(* Line 237: the refresh started by the delete handler settles
   (lines 164-173); nobody awaits it. *)
DeleteReadOk(i) ==
    /\ reads[i].kind = "delete"
    /\ disk # Null
    /\ cachedDiskContents' = disk
    /\ exists' = TRUE
    /\ reads' = Remove(reads, i)
    /\ last' = Step("onDidDelete:refreshed", {}, reads[i])
    /\ UNCHANGED <<text, conflict, saveID, pendingSaveContents,
                   wasModifiedBeforeRemove, destroyed, loaded, path, subscribed, envVars, saves, countVars>>
    /\ UNCHANGED auxVars

DeleteReadFail(i) ==
    /\ reads[i].kind = "delete"
    /\ exists' = FALSE
    /\ reads' = Remove(reads, i)
    /\ last' = Step("onDidDelete:refresh-failed", {"unhandled-rejection"}, reads[i])
    /\ UNCHANGED <<text, cachedDiskContents, conflict, saveID, pendingSaveContents,
                   wasModifiedBeforeRemove, destroyed, loaded, path, subscribed, envVars, saves, countVars>>
    /\ UNCHANGED auxVars

(* --------------------- file.onWillThrowWatchError --------------------- *)
(* Lines 250-252. *)
WatchError ==
    /\ subscribed
    /\ last' = Step("onWillThrowWatchError", {"will-throw-watch-error"}, NoArg)
    /\ UNCHANGED <<docVars, envVars, procVars, countVars>>
    /\ UNCHANGED auxVars

(* The owning editor closes the document: destroy(). *)
Close ==
    /\ ~destroyed
    /\ destroyed' = TRUE
    /\ subscribed' = FALSE
    /\ changeEvents' = 0
    /\ deleteEvents' = 0
    /\ last' = Step("destroy", {"did-destroy"}, NoArg)
    /\ UNCHANGED <<text, cachedDiskContents, conflict, exists, saveID,
                   pendingSaveContents, wasModifiedBeforeRemove, loaded, path, disk, procVars, countVars>>
    /\ UNCHANGED auxVars

Next ==
    \/ \E p \in Paths \cup {EmptyPath} : ~destroyed /\ SaveAs(p)
    \/ \E i \in 1..Len(saves) : WriteLands(i)
    \/ \E i \in 1..Len(saves) : SaveOk(i)
    \/ \E i \in 1..Len(saves) : SaveFail(i)
    \/ \E c \in Contents : ExternalChange(c)
    \/ ExternalDelete
    \/ \E c \in Contents : Edit(c)
    \/ ChangeBegin
    \/ \E i \in 1..Len(reads) : ChangeReadOk(i)
    \/ \E i \in 1..Len(reads) : ChangeReadFail(i)
    \/ \E policy \in Policies : DeleteBegin(policy)
    \/ \E i \in 1..Len(reads) : DeleteReadOk(i)
    \/ \E i \in 1..Len(reads) : DeleteReadFail(i)
    \/ WatchError
    \/ Close

Spec == Init /\ [][Next]_vars

(* One save and its own change notification: no other writer touches the
   remote file, and the transport fails neither the write nor a read. *)
NextSingleSave ==
    \/ \E p \in Paths \cup {EmptyPath} :
          /\ ~destroyed
          /\ p # EmptyPath => (saves = <<>> /\ saveID = 0)
          /\ SaveAs(p)
    \/ \E i \in 1..Len(saves) : WriteLands(i)
    \/ \E i \in 1..Len(saves) : SaveOk(i)
    \/ \E c \in Contents : Edit(c)
    \/ ChangeBegin
    \/ \E i \in 1..Len(reads) : ChangeReadOk(i)
    \/ WatchError
    \/ Close

SpecSingleSave == Init /\ [][NextSingleSave]_vars

(* ------------------------------ ConfigCache ---------------------------- *)

dirname(p) == SubSeq(p, 1, Len(p) - 1)
IsFile(p) == Len(p) > 0 /\ p[Len(p)] = FileName

\* a file starts the search at its parent directory
StartDir_alwaysParent(p) == dirname(p)

\* where the search for startPath begins
StartDir(p) == IF IsFile(p) THEN dirname(p) ELSE p

\* the marker-file existence check at directory d
MarkerExists(d) == d \in markers

Range(seq) == {seq[i] : i \in 1..Len(seq)}

\* the map after answer is recorded for every directory in visited
Record(map, visited, answer) ==
    [d \in DOMAIN map \cup visited |-> IF d \in visited THEN answer ELSE map[d]]

\* what an earlier, completed lookup answered for directory d, if any did
Promised(d) == IF d \in DOMAIN promised THEN {promised[d]} ELSE {}

Lookup(p, answer, callers, visited, checks, expect) ==
    [path |-> p, answer |-> answer, callers |-> callers, visited |-> visited,
     checks |-> checks, expect |-> expect]

\* getConfigDir without the shared handle: every call walks for itself
GetConfigDir_noCoalescing(p) ==
    /\ nLookups < MaxLookups
    /\ nLookups' = nLookups + 1
    /\ LET d == StartDir(p) IN
       IF d \in DOMAIN resolved
       THEN /\ last' = Step("getConfigDir:done", {},
                            Lookup(p, resolved[d], 1, <<d>>, <<>>, Promised(d)))
            /\ promised' = Record(promised, {d}, resolved[d])
            /\ UNCHANGED <<walks, resolved>>
       ELSE /\ walks' = Append(walks, [path |-> p, cur |-> d, visited |-> <<d>>,
                                       checks |-> <<>>, callers |-> 1,
                                       expect |-> Promised(d)])
            /\ last' = Step("getConfigDir:walk", {}, [path |-> p])
            /\ UNCHANGED <<resolved, promised>>
    /\ UNCHANGED <<markers, bufferVars, diffVars>>

\* getConfigDir(startPath): a caller joins the lookup already outstanding for
\* the same path; otherwise the cache is consulted at the starting directory
\* and, on a miss, a walk begins with the existence check there.
GetConfigDir(p) ==
    /\ nLookups < MaxLookups
    /\ nLookups' = nLookups + 1
    /\ LET d == StartDir(p) IN
       IF \E i \in 1..Len(walks) : walks[i].path = p
       THEN LET i == CHOOSE j \in 1..Len(walks) : walks[j].path = p IN
            /\ walks' = [walks EXCEPT ![i].callers = @ + 1]
            /\ last' = Step("getConfigDir:join", {}, [path |-> p])
            /\ UNCHANGED <<resolved, promised>>
       ELSE IF d \in DOMAIN resolved
       THEN /\ last' = Step("getConfigDir:done", {},
                            Lookup(p, resolved[d], 1, <<d>>, <<>>, Promised(d)))
            /\ promised' = Record(promised, {d}, resolved[d])
            /\ UNCHANGED <<walks, resolved>>
       ELSE /\ walks' = Append(walks, [path |-> p, cur |-> d, visited |-> <<d>>,
                                       checks |-> <<>>, callers |-> 1,
                                       expect |-> Promised(d)])
            /\ last' = Step("getConfigDir:walk", {}, [path |-> p])
            /\ UNCHANGED <<resolved, promised>>
    /\ UNCHANGED <<markers, bufferVars, diffVars>>

\* The walk i ends with answer: its callers all receive it, and when record is
\* set the cache takes it for every directory the walk visited.
Finish(i, answer, visited, checks, record) ==
    /\ walks' = Remove(walks, i)
    /\ resolved' = IF record THEN Record(resolved, Range(visited), answer)
                             ELSE resolved
    /\ promised' = Record(promised, Range(visited), answer)
    /\ last' = Step("getConfigDir:done", {},
                    Lookup(walks[i].path, answer, walks[i].callers, visited,
                           checks, walks[i].expect))

\* The existence check of walk i at its current directory returns: the marker
\* is there, or the root is reached without one, or the walk moves one
\* directory up, where a resolved cache entry ends it at once.
CheckReturns(i) ==
    /\ LET w == walks[i]
           d == w.cur
           checks == Append(w.checks, d)
           parent == dirname(d)
       IN  IF MarkerExists(d) THEN Finish(i, d, w.visited, checks, TRUE)
           ELSE IF d = <<>> THEN Finish(i, NoConfig, w.visited, checks, TRUE)
           ELSE IF parent \in DOMAIN resolved
           THEN Finish(i, resolved[parent], Append(w.visited, parent), checks, FALSE)
           ELSE /\ walks' = [walks EXCEPT ![i] =
                                [w EXCEPT !.cur = parent,
                                          !.visited = Append(w.visited, parent),
                                          !.checks = checks]]
                /\ last' = Step("getConfigDir:step", {}, [path |-> w.path])
                /\ UNCHANGED <<resolved, promised>>
    /\ UNCHANGED <<markers, nLookups, bufferVars, diffVars>>

InitCache ==
    /\ BufferIdle
    /\ DiffIdle
    /\ markers \in SUBSET Dirs
    /\ resolved = EmptyMap
    /\ walks = <<>>
    /\ promised = EmptyMap
    /\ nLookups = 0
    /\ last = Step("constructor", {}, NoArg)

NextCache ==
    \/ \E p \in StartPaths : GetConfigDir(p)
    \/ \E i \in 1..Len(walks) : CheckReturns(i)

SpecCache == InitCache /\ [][NextCache]_vars

(* ---------------------------- setTextViaDiff --------------------------- *)

\* TextBuffer.getLineCount(): the last row plus one
getLineCount(t) == t.newlines + 1

\* countOccurrences(newText, '\n')
countOccurrences(t) == t.newlines

\* Above the limit the text is replaced wholesale, otherwise it is diffed;
\* either way the buffer ends up holding newText.
SetTextViaDiff(newText) ==
    /\ bufferText' = newText
    /\ last' = Step(IF \/ getLineCount(bufferText) > DIFF_LINE_LIMIT
                       \/ countOccurrences(newText) > DIFF_LINE_LIMIT
                    THEN "setTextViaDiff:setText"
                    ELSE "setTextViaDiff:diff",
                    {"did-change"},
                    [newText |-> newText, lineCount |-> getLineCount(bufferText)])
    /\ UNCHANGED <<bufferVars, cacheVars>>

InitDiff ==
    /\ BufferIdle
    /\ CacheIdle
    /\ bufferText \in Texts
    /\ last = Step("constructor", {}, NoArg)

NextDiff == \E newText \in Texts : SetTextViaDiff(newText)

SpecDiff == InitDiff /\ [][NextDiff]_vars

(* ------------------------------ properties ---------------------------- *)

ChangeEndOps == {"onDidChange:clear", "onDidChange:conflict", "onDidChange:reload"}
DeleteOps == {"onDidDelete:modified", "onDidDelete:destroy", "onDidDelete:soft"}
ChangeReads == {i \in 1..Len(reads) : reads[i].kind = "change"}

(* C1: when a saveAs whose write succeeded finishes, cachedDiskContents is
   the snapshot taken when the save started, conflict is false, _saveID is
   one more than just before, and _pendingSaveContents is null. *)
C1_SuccessfulSave ==
    [][last'.op = "saveAs:ok" =>
          /\ cachedDiskContents' = last'.arg.toSaveContents
          /\ conflict' = FALSE
          /\ saveID' = saveID + 1
          /\ pendingSaveContents' = Null]_vars

(* A save succeeded although the text was edited while it was written. *)
C1_Witness ==
    /\ last.op = "saveAs:ok"
    /\ text # last.arg.toSaveContents
    /\ cachedDiskContents = last.arg.toSaveContents

(* C2: _saveID never decreases; a successfully completed save adds exactly
   one, every other step (failed save, rejected save, notification handlers,
   edits) leaves it unchanged. *)
C2_SaveIDMonotonic ==
    [][/\ saveID' >= saveID
       /\ last'.op = "saveAs:ok" => saveID' = saveID + 1
       /\ last'.op # "saveAs:ok" => saveID' = saveID]_vars

(* A save failed after an earlier one had succeeded. *)
C2_Witness == last.op = "saveAs:failed" /\ saveID = 1

(* C3: a change reconciliation whose read succeeds after a save completed
   during it ends with conflict false, emits no did-conflict and leaves the
   text alone, whatever the read returned. *)
C3_SaveDuringRead ==
    [][(last'.op \in ChangeEndOps /\ last'.arg.previousSaveID # saveID) =>
          /\ last'.op = "onDidChange:clear"
          /\ conflict' = FALSE
          /\ "did-conflict" \notin last'.ev
          /\ text' = text]_vars

(* A save completed during the read, and the read returned contents that
   are neither the contents recorded before it nor the text. *)
C3_Witness ==
    /\ last.op = "onDidChange:clear"
    /\ last.arg.previousSaveID # saveID
    /\ cachedDiskContents # last.arg.previousContents
    /\ cachedDiskContents # text

(* C4: unsaved edits are never lost: a change reconciliation replaces the
   text by a reload only when the text equals the disk contents the document
   held before the refresh. *)
C4_ReloadLosesNoEdits ==
    [][(last'.op = "onDidChange:reload" /\ text' # text) =>
          text = cachedDiskContents]_vars

(* C5: at most one reconciliation of the document is in progress: no change
   or delete notification is handled while a change handler is suspended in
   its read. *)
C5_Serialized ==
    /\ Cardinality(ChangeReads) <= 1
    /\ last.op = "onDidChange:begin" => Cardinality(ChangeReads) = 1
    /\ last.op \in DeleteOps => ChangeReads = {}

(* C6: a saveAs whose write failed leaves conflict, cachedDiskContents and
   _saveID as they were, both when it starts and when the write fails, emits
   no did-save, clears _pendingSaveContents and returns normally, the error
   being shown as a notification. *)
C6_FailedSave ==
    [][/\ last'.op = "saveAs:begin" =>
             (conflict' = conflict /\ cachedDiskContents' = cachedDiskContents)
       /\ last'.op = "saveAs:failed" =>
          /\ conflict' = conflict
          /\ cachedDiskContents' = cachedDiskContents
          /\ saveID' = saveID
          /\ pendingSaveContents' = Null
          /\ "did-save" \notin last'.ev
          /\ "throw" \notin last'.ev
          /\ "addError" \in last'.ev]_vars

(* A save failed after its write had reached the store, with edits unsaved. *)
C6_Witness ==
    /\ last.op = "saveAs:failed"
    /\ last.arg.landed
    /\ cachedDiskContents # last.arg.toSaveContents

(* C7: saveAs with an empty path throws before any write is issued and
   changes nothing: no will-save, no rebinding of the path, and
   _pendingSaveContents, cachedDiskContents, conflict and _saveID as before. *)
C7_EmptyPathRejected ==
    [][last'.op = "saveAs:throw" =>
          /\ UNCHANGED <<docVars, envVars, procVars>>
          /\ last'.ev = {"throw"}]_vars

(* An empty-path save was rejected while another save was being written. *)
C7_Witness ==
    /\ last.op = "saveAs:throw"
    /\ saves # <<>>
    /\ pendingSaveContents # Null

(* C8: on a delete notification under the destroy policy, the document is
   destroyed when text equals cachedDiskContents; otherwise it is not
   destroyed, text is unchanged, _exists is false and
   wasModifiedBeforeRemove is true. *)
C8_DeleteOutcome ==
    [][(last'.op \in DeleteOps /\ DestroysOnDelete(last'.arg.policy)) =>
          IF text = cachedDiskContents
          THEN destroyed'
          ELSE /\ ~destroyed'
               /\ text' = text
               /\ exists' = FALSE
               /\ wasModifiedBeforeRemove' = TRUE]_vars

(* A delete arrived with unsaved edits under the default policy. *)
C8_Witness ==
    /\ last.op = "onDidDelete:modified"
    /\ last.arg.policy = "null"
    /\ text # cachedDiskContents
    /\ ~destroyed

(* C9: with one save and no other remote change, in every order of the
   write's completion and the change notification it causes, no did-conflict
   is emitted, the text is never reloaded, and conflict is false once the
   save and the reconciliation have both finished. *)
C9_EitherOrder ==
    /\ "did-conflict" \notin last.ev
    /\ last.op # "onDidChange:reload"
    /\ (saveID = 1 /\ saves = <<>> /\ reads = <<>> /\ changeEvents = 0) => ~conflict

(* The notification was handled before the write completed, the document
   holding other contents than the ones written. *)
C9_Witness ==
    /\ last.op = "onDidChange:clear"
    /\ last.arg.previousSaveID = saveID
    /\ last.arg.previousContents # cachedDiskContents
    /\ pendingSaveContents = cachedDiskContents

(* C10: _pendingSaveContents is null exactly when no write is in flight, and
   while one is in flight it is the snapshot that save is writing. *)
C10_PendingMatchesWrites ==
    /\ pendingSaveContents = Null <=> saves = <<>>
    /\ saves # <<>> =>
          \A i \in 1..Len(saves) : pendingSaveContents = saves[i].toSaveContents

(* C11: conflict is true only while the text differs from the most recently
   observed cachedDiskContents. *)
C11_ConflictMeansDivergence == conflict => text # cachedDiskContents

(* C15: when the handling of a change notification starts, conflict becomes
   true whenever the text differs from cachedDiskContents, in every state in
   which the handler runs. *)
C15_ConflictRaisedAtStart ==
    [][(last'.op = "onDidChange:begin" /\ text # cachedDiskContents) =>
          conflict']_vars

(* C16: a change reconciliation emits did-conflict exactly when, its read
   having returned, no save completed during the read, the refreshed
   contents differ from the ones recorded before the read and from
   _pendingSaveContents, and conflict is true; the text is then left alone.
   No other step emits did-conflict. *)
C16_ConflictEmittedExactly ==
    [][/\ "did-conflict" \in last'.ev => last'.op \in ChangeEndOps
       /\ last'.op \in ChangeEndOps =>
             /\ "did-conflict" \in last'.ev <=>
                   /\ saveID = last'.arg.previousSaveID
                   /\ cachedDiskContents' # last'.arg.previousContents
                   /\ cachedDiskContents' # pendingSaveContents
                   /\ conflict
             /\ "did-conflict" \in last'.ev => text' = text]_vars

(* A conflict was reported, the text kept. *)
C16_Witness ==
    /\ "did-conflict" \in last.ev
    /\ text # cachedDiskContents
    /\ conflict

(* C17: when the read of a change reconciliation fails, _exists becomes
   false, the error leaves the handler, conflict, text and
   cachedDiskContents are as they were, and the subscriptions and the
   notifications not yet handled are untouched, so that the handlers go on
   running. *)
C17_ReadFailure ==
    [][last'.op = "onDidChange:throw" =>
          /\ exists' = FALSE
          /\ "throw" \in last'.ev
          /\ conflict' = conflict
          /\ text' = text
          /\ cachedDiskContents' = cachedDiskContents
          /\ UNCHANGED <<subscribed, destroyed, changeEvents, deleteEvents>>]_vars

(* A change notification is handled after an earlier read failed with the
   conflict flag raised. *)
C17_Witness ==
    /\ last.op = "onDidChange:begin"
    /\ ~exists
    /\ conflict
    /\ ~wasModifiedBeforeRemove
    /\ deleteEvents = 0

(* C18: when a save's write fails, an untitled editor is opened exactly when
   the document was destroyed, and it is given the snapshot that save was
   writing. *)
C18_RecoveryOnDestroyed ==
    [][last'.op = "saveAs:failed" =>
          IF destroyed
          THEN /\ "workspace.open" \in last'.ev
               /\ last'.arg.opened = last'.arg.toSaveContents
          ELSE /\ "workspace.open" \notin last'.ev
               /\ last'.arg.opened = Null]_vars

(* The save of a closed document failed, its text differing from the
   snapshot. *)
C18_Witness ==
    /\ last.op = "saveAs:failed"
    /\ destroyed
    /\ last.arg.opened # text
    /\ last.arg.opened # cachedDiskContents

(* C19: a soft delete disposes the subscriptions, so that no later change,
   delete or watch-error notification is handled, makes cachedDiskContents
   null and conflict false, and reports the modified status as true exactly
   when the text is not empty. *)
C19_SoftDelete ==
    [][/\ last'.op = "onDidDelete:soft" =>
             /\ subscribed' = FALSE
             /\ cachedDiskContents' = Null
             /\ conflict' = FALSE
             /\ text' = text
             /\ destroyed' = destroyed
             /\ last'.ev = {ModifiedEvent(text # "")}
       /\ ~subscribed =>
             /\ subscribed' = FALSE
             /\ last'.op \notin
                   DeleteOps \cup {"onDidChange:begin", "onWillThrowWatchError"}]_vars

(* A document with text was soft-deleted while the file was changing. *)
C19_Witness ==
    /\ last.op = "onDidDelete:soft"
    /\ text # ""
    /\ ~destroyed
    /\ nOps = MaxOps

\* The nearest directory at or above path p that holds the marker file; a file
\* is no directory, so from a file the first candidate is its parent.
RECURSIVE NearestConfigDir(_)
NearestConfigDir(p) ==
    IF p \in markers THEN p
    ELSE IF p = <<>> THEN NoConfig
    ELSE NearestConfigDir(SubSeq(p, 1, Len(p) - 1))

\* C12: every completed getConfigDir(startPath) answers the nearest directory
\* at or above the start that holds the marker file, or none when there is
\* none up to the root; a file starts at its parent, so a file and its
\* directory get the same answer.
C12_NearestAncestor ==
    [][last'.op = "getConfigDir:done" =>
          last'.arg.answer = NearestConfigDir(last'.arg.path)]_vars

\* a nested file resolved to a marker directory two levels up, past the cache
C12_Witness ==
    /\ last.op = "getConfigDir:done"
    /\ IsFile(last.arg.path)
    /\ last.arg.answer # NoConfig
    /\ Len(last.arg.answer) + 2 = Len(last.arg.path)
    /\ last.arg.answer \in markers
    /\ Len(last.arg.checks) = 1

\* C13: a call made after a lookup completed, starting at a directory that
\* lookup visited, gets the same answer and makes no existence check.
C13_CacheHit ==
    [][(last'.op = "getConfigDir:done" /\ last'.arg.expect # {}) =>
          /\ last'.arg.expect = {last'.arg.answer}
          /\ last'.arg.checks = <<>>]_vars

\* C14: while a lookup for a path is outstanding, further calls for that path
\* start no walk of their own: one walk per path is in flight, it checks each
\* directory at most once, and its one answer goes to all of its callers.
C14_Coalescing ==
    [][/\ \A i, j \in 1..Len(walks') :
              walks'[i].path = walks'[j].path => i = j
       /\ \A i \in 1..Len(walks') :
              Cardinality(Range(walks'[i].checks)) = Len(walks'[i].checks)
       /\ (\E i \in 1..Len(walks) : walks[i].path = last'.arg.path
               /\ last'.op \in {"getConfigDir:join", "getConfigDir:walk"}) =>
              /\ last'.op = "getConfigDir:join"
              /\ Len(walks') = Len(walks)
              /\ \E i \in 1..Len(walks) :
                    walks' = [walks EXCEPT ![i].callers = walks[i].callers + 1]
       /\ last'.op = "getConfigDir:done" =>
              /\ Cardinality(Range(last'.arg.checks)) = Len(last'.arg.checks)
              /\ Len(walks') = Len(walks) - (IF last'.arg.checks = <<>> THEN 0 ELSE 1)]_vars

\* three callers shared one walk of two checks
C14_Witness ==
    /\ last.op = "getConfigDir:done"
    /\ last.arg.callers = 3
    /\ Len(last.arg.checks) = 2
    /\ walks = <<>>

\* C20: setTextViaDiff replaces the text wholesale exactly when the existing
\* text has more lines than the limit or the incoming text has more lines than
\* the limit, and in either case the buffer ends up holding the incoming text.
C20_SymmetricLimit ==
    [][last'.op \in {"setTextViaDiff:setText", "setTextViaDiff:diff"} =>
          /\ last'.op = "setTextViaDiff:setText" <=>
                \/ bufferText.newlines + 1 > DIFF_LINE_LIMIT
                \/ last'.arg.newText.newlines + 1 > DIFF_LINE_LIMIT
          /\ bufferText' = last'.arg.newText]_vars

====
